---- MODULE Spec2Model ----
(***************************************************************************)
(* Live subtitle engine of OnAir-backend: the subtitle subscription        *)
(* registry and language fan-out broadcaster (TranscriptionGateway), the   *)
(* per-connection streaming session (RealtimeTranscriptionGateway and      *)
(* RealtimeTranscriptionService) and the transcript quality filter and     *)
(* translation wrapper (TranscriptionService).                             *)
(*                                                                         *)
(* Strings of the program are sequences of one-character strings, so that  *)
(* toLowerCase, trim, includes and the regular expressions of the quality  *)
(* filter are computed and not assumed.  The Hangul syllables U+AC00 to    *)
(* U+D7A3 are written "H1", "H2", "H3" (one UTF-16 unit each).             *)
(***************************************************************************)
EXTENDS Integers, Sequences, FiniteSets, TLC

\* A missing id (JavaScript undefined / null / a Map miss) among ids.
None == "none"
\* A missing string (JavaScript undefined) among character sequences.
undefined == <<"undefined">>

-----------------------------------------------------------------------------
(* String primitives of JavaScript used by the program.                    *)

UpperCase == <<"A", "B", "C", "D", "E", "F", "G", "H", "I", "J", "K", "L", "M", "N", "O", "P", "Q", "R", "S", "T", "U", "V", "W", "X", "Y", "Z">>
LowerCase == <<"a", "b", "c", "d", "e", "f", "g", "h", "i", "j", "k", "l", "m", "n", "o", "p", "q", "r", "s", "t", "u", "v", "w", "x", "y", "z">>
Digits == {"0", "1", "2", "3", "4", "5", "6", "7", "8", "9"}
HangulSyllables == {"H1", "H2", "H3"}
WhiteSpace == {" ", "\t", "\n"}

Range(f) == {f[i] : i \in DOMAIN f}

\* \w of a JavaScript regular expression: [A-Za-z0-9_].
IsWordChar(c) == c \in Range(UpperCase) \cup Range(LowerCase) \cup Digits \cup {"_"}

LowerChar(c) ==
    IF c \in Range(UpperCase)
    THEN LowerCase[CHOOSE i \in DOMAIN UpperCase : UpperCase[i] = c]
    ELSE c

\* A string is falsy when it is undefined or empty.
Falsy(s) == s = undefined \/ s = <<>>

toLowerCase(s) == [i \in DOMAIN s |-> LowerChar(s[i])]

RECURSIVE trimStart(_)
trimStart(s) ==
    IF s # <<>> /\ Head(s) \in WhiteSpace THEN trimStart(Tail(s)) ELSE s

RECURSIVE trimEnd(_)
trimEnd(s) ==
    IF s # <<>> /\ s[Len(s)] \in WhiteSpace
    THEN trimEnd(SubSeq(s, 1, Len(s) - 1))
    ELSE s

trim(s) == trimEnd(trimStart(s))

\* String.prototype.includes
includes(s, w) ==
    \/ w = <<>>
    \/ \E i \in 1..(Len(s) - Len(w) + 1) :
           s[i] = w[1] /\ SubSeq(s, i, i + Len(w) - 1) = w

startsWith(s, w) == Len(w) <= Len(s) /\ SubSeq(s, 1, Len(w)) = w

\* s.split(/\s+/).filter((w) => w.length > 0)
RECURSIVE splitWords(_)
splitWords(s) ==
    LET t == trimStart(s)
        RECURSIVE wordLen(_)
        wordLen(k) ==
            IF k < Len(t) /\ t[k + 1] \notin WhiteSpace THEN wordLen(k + 1) ELSE k
    IN  IF t = <<>>
        THEN <<>>
        ELSE LET n == wordLen(0)
             IN  <<SubSeq(t, 1, n)>> \o splitWords(SubSeq(t, n + 1, Len(t)))

EN == <<"e", "n">>
KO == <<"k", "o">>
supportedLanguages == {EN, KO}

-----------------------------------------------------------------------------
(* TranscriptionService: the quality filter.                               *)

vulgarWords ==
    { <<"f", "u", "c", "k">>,
      <<"s", "h", "i", "t">>,
      <<"d", "a", "m", "n">>,
      <<"h", "e", "l", "l">>,
      <<"a", "s", "s">>,
      <<"b", "i", "t", "c", "h">>,
      <<"b", "a", "s", "t", "a", "r", "d">>,
      <<"c", "r", "a", "p">>,
      <<"p", "i", "s", "s">>,
      <<"d", "i", "c", "k">>,
      <<"c", "o", "c", "k">>,
      <<"p", "u", "s", "s", "y">>,
      <<"c", "u", "n", "t">>,
      <<"w", "h", "o", "r", "e">>,
      <<"s", "l", "u", "t">>,
      <<"f", "a", "g">>,
      <<"n", "i", "g", "g", "e", "r">>,
      <<"n", "i", "g", "g", "a">>,
      <<"r", "e", "t", "a", "r", "d">>,
      <<"i", "d", "i", "o", "t">>,
      <<"s", "t", "u", "p", "i", "d">>,
      <<"d", "u", "m", "b">>,
      <<"m", "o", "r", "o", "n">>,
      <<"g", "o", "d", "d", "a", "m", "n">>,
      <<"b", "l", "o", "o", "d", "y">>,
      <<"s", "c", "r", "e", "w">>,
      <<"s", "c", "r", "e", "w", " ", "y", "o", "u">>,
      <<"s", "c", "r", "e", "w", " ", "o", "f", "f">> }

containsVulgarWords(text) ==
    LET lowerText == toLowerCase(text)
    IN  \E word \in vulgarWords : includes(lowerText, word)

\* The patterns of hallucinationPatterns that are a plain phrase with flag i.
hallucinationPhrases ==
    { <<"t", "h", "a", "n", "k", " ", "y", "o", "u", " ", "f", "o", "r", " ", "w", "a", "t", "c", "h", "i", "n", "g">>,
      <<"t", "h", "a", "n", "k", "s", " ", "f", "o", "r", " ", "w", "a", "t", "c", "h", "i", "n", "g">>,
      <<"p", "l", "e", "a", "s", "e", " ", "s", "u", "b", "s", "c", "r", "i", "b", "e">>,
      <<"l", "i", "k", "e", " ", "a", "n", "d", " ", "s", "u", "b", "s", "c", "r", "i", "b", "e">>,
      <<"s", "e", "e", " ", "y", "o", "u", " ", "n", "e", "x", "t", " ", "t", "i", "m", "e">>,
      <<"g", "o", "o", "d", "b", "y", "e">>,
      <<"f", "a", "r", "e", "w", "e", "l", "l">>,
      <<"e", "n", "d", " ", "o", "f", " ", "t", "r", "a", "n", "s", "c", "r", "i", "p", "t">>,
      <<"t", "r", "a", "n", "s", "c", "r", "i", "p", "t", "i", "o", "n">>,
      <<"b", "a", "c", "k", "g", "r", "o", "u", "n", "d">>,
      <<"n", "o", "i", "s", "e">>,
      <<"s", "t", "a", "t", "i", "c">>,
      <<"s", "i", "l", "e", "n", "c", "e">>,
      <<"u", "n", "c", "l", "e", "a", "r">>,
      <<"i", "n", "a", "u", "d", "i", "b", "l", "e">>,
      <<"m", "u", "f", "f", "l", "e", "d">> }

\* The alternatives of /^(uh|um|ah|er|hmm|eh|oh)+$/i.
fillerPattern ==
    { <<"u", "h">>, <<"u", "m">>, <<"a", "h">>, <<"e", "r">>,
      <<"h", "m", "m">>, <<"e", "h">>, <<"o", "h">> }

\* s (lower case) is one or more of the alternatives, concatenated.
RECURSIVE matchesFillerPattern(_)
matchesFillerPattern(s) ==
    \E f \in fillerPattern :
        /\ startsWith(s, f)
        /\ \/ Len(s) = Len(f)
           \/ matchesFillerPattern(SubSeq(s, Len(f) + 1, Len(s)))

matchesHallucinationPattern(trimmed) ==
    LET lower == toLowerCase(trimmed)
        all(P(_)) == trimmed # <<>> /\ \A i \in DOMAIN trimmed : P(trimmed[i])
        onlyDots(c) == c = "."
        onlyPunct(c) == ~IsWordChar(c) /\ c \notin WhiteSpace
        onlyDigits(c) == c \in Digits
        onlySpecial(c) == ~IsWordChar(c) /\ c \notin HangulSyllables
    IN  \/ \E p \in hallucinationPhrases : includes(lower, p)
        \/ all(onlyDots)
        \/ all(onlyPunct)
        \/ matchesFillerPattern(lower)
        \/ /\ trimmed # <<>>
           /\ Head(lower) \in Range(LowerCase)
           /\ \A i \in 2..Len(trimmed) : trimmed[i] \in WhiteSpace
        \/ all(onlyDigits)
        \/ all(onlySpecial)

suspiciousWords ==
    { <<"b", "a", "c", "k", "g", "r", "o", "u", "n", "d">>,
      <<"n", "o", "i", "s", "e">>,
      <<"s", "t", "a", "t", "i", "c">>,
      <<"s", "i", "l", "e", "n", "c", "e">>,
      <<"u", "n", "c", "l", "e", "a", "r">>,
      <<"i", "n", "a", "u", "d", "i", "b", "l", "e">>,
      <<"m", "u", "f", "f", "l", "e", "d">> }

fillerWords ==
    { <<"u", "h">>, <<"u", "m">>, <<"a", "h">>, <<"e", "r">>,
      <<"h", "m", "m">>, <<"e", "h">>, <<"o", "h">>,
      <<"l", "i", "k", "e">>,
      <<"y", "o", "u", " ", "k", "n", "o", "w">> }

\* /(.)\1{3,}/ : one character four or more times in a row.
hasRepeatedChar(s) ==
    \E i \in 1..(Len(s) - 3) :
        /\ s[i] # "\n"
        /\ \A k \in 1..3 : s[i + k] = s[i]

alphaNumericCount(s) ==
    Cardinality({i \in DOMAIN s :
        s[i] \in Range(UpperCase) \cup Range(LowerCase) \cup Digits \cup HangulSyllables})

\* A mutant of validateTranscriptionQuality: every text passes.
validateTranscriptionQualityAcceptsAll(text) == TRUE

validateTranscriptionQuality(text) ==
    IF Falsy(text)
    THEN FALSE
    ELSE LET trimmed == trim(text)
             words == splitWords(trimmed)
             wordCount == Len(words)
             totalChars == Len(trimmed)
             fillerCount ==
                 Cardinality({i \in DOMAIN words : toLowerCase(words[i]) \in fillerWords})
         IN  /\ ~(Len(trimmed) < 3)
             /\ ~containsVulgarWords(trimmed)
             /\ ~matchesHallucinationPattern(trimmed)
             /\ ~(wordCount = 0)
             /\ ~(wordCount = 1 /\ Len(trimmed) < 4)
             /\ ~hasRepeatedChar(trimmed)
             \* alphaNumericCount / totalChars < 0.6
             /\ ~(totalChars > 0 /\ 5 * alphaNumericCount(trimmed) < 3 * totalChars)
             /\ ~(\E word \in suspiciousWords : includes(toLowerCase(trimmed), word))
             \* fillerCount / wordCount > 0.5
             /\ ~(wordCount > 0 /\ 2 * fillerCount > wordCount)

-----------------------------------------------------------------------------
(* TranscriptionService.translateText, split at its one await: the part    *)
(* before the provider request and the part after the provider answered.   *)

\* The normalisation of a language code done by translateText.
normalizeLanguage(language) ==
    LET l == trim(toLowerCase(language))
        mapped == IF l \in {<<"e", "n", "g", "l", "i", "s", "h">>, <<"e", "n", "g">>} THEN EN
                  ELSE IF l \in {<<"k", "o", "r", "e", "a", "n">>, <<"k", "o", "r">>} THEN KO
                  ELSE l
    IN  IF mapped \in supportedLanguages THEN mapped ELSE EN

trimmedText(text) == IF Falsy(text) THEN <<>> ELSE trim(text)

\* translateText reaches the request to the translation provider.
translateTextCallsProvider(text, targetLanguage, sourceLanguage) ==
    /\ ~(Len(trimmedText(text)) < 2)
    /\ normalizeLanguage(IF Falsy(sourceLanguage) THEN EN ELSE sourceLanguage)
         # normalizeLanguage(targetLanguage)

\* translatedText of the result when translateText returns before the request.
translateTextLocal(text, targetLanguage, sourceLanguage) ==
    IF Len(trimmedText(text)) < 2 THEN <<>> ELSE trimmedText(text)

\* What the provider can answer: a completion with some content, or a failure
\* (an HTTP error, the 1.5 s timeout).
ProviderError == [kind |-> "error", content |-> undefined]
ProviderContent(c) == [kind |-> "content", content |-> c]

\* The request failed, or the completion has no text.
providerFailed(answer) ==
    \/ answer.kind = "error"
    \/ Falsy(answer.content)
    \/ trim(answer.content) = <<>>

\* translatedText of the result once the provider answered.
translateTextAfterProvider(text, answer) ==
    IF answer.kind = "error"
    THEN <<>>
    ELSE LET content == IF Falsy(answer.content) THEN <<>> ELSE trim(answer.content)
             translated == IF content = <<>> THEN trimmedText(text) ELSE content
             filtered == IF containsVulgarWords(translated) THEN <<>> ELSE translated
         IN  IF trim(filtered) = <<>> THEN trimmedText(text) ELSE filtered

-----------------------------------------------------------------------------
(* The state.                                                              *)

Sockets == {"s1", "s2"}
Meetings == {"m1", "m2"}
Users == {"u1", "u2"}

\* How many SUBSCRIBE_SUBTITLES / UNSUBSCRIBE_SUBTITLES handlers may be
\* suspended at their await (client.join, client.leave) at a time.
MaxSuspended == 1
\* How many utterances are broadcast in one behaviour.
MaxUtterances == 1

\* The clients of the realtime namespace.
Clients == {"c1"}
\* How many upstream WebSockets are created in one behaviour.
MaxUpstream == 2
\* How many consecutive polls of waitForSession one step follows.
PollStride == 50
\* The milliseconds of one step of the clock, and how many steps are followed
\* after a final result.
TickMs == 30000
MaxTicks == 2

VARIABLES
    \* --- TranscriptionGateway (namespace /transcription) ---
    sockState,               \* socket -> "fresh" | "open" | "closed"
    awaitingProfile,         \* socket -> payload.sub while handleConnection awaits getProfile
    clientUser,              \* socket -> client.user._id
    participantPreferences,  \* meetingId -> (userId -> language)
    activeSubscriptions,     \* meetingId -> set of socketId
    socketToUserMap,         \* socketId -> userId
    socketToMeetingMap,      \* socketId -> meetingId
    subscribeJoin,           \* subscribe handlers suspended at `await client.join`
    unsubscribeLeave,        \* unsubscribe handlers suspended at `await client.leave`
    subscribedLanguage,      \* socket -> the language of the last SUBSCRIBE_SUCCESS
                             \* emitted to it (lines 203-207), as its client holds it
    \* --- broadcastSubtitle ---
    broadcasts,              \* broadcasts suspended at `await Promise.allSettled`
    nextUtterance,           \* the number of the next utterance
    translateCalls,          \* utterance -> (target language -> translateText calls)
    translateFailed,         \* utterance -> the target languages whose translation
                             \* failed or came back empty
    inbox,                   \* socket -> the subtitle events emitted to it, in order
    \* --- RealtimeTranscriptionGateway (namespace /realtime-transcription) ---
    rtState,                 \* client -> "fresh" | "open" | "closed"
    openaiConnections,       \* Map: client id -> upstream WebSocket
    sessionReady,            \* Map: client id -> boolean
    clientLanguages,         \* Map: client id -> language
    upstream,                \* the upstream WebSockets created so far, by number
    feedback,                \* speaker translations waiting for the provider
    out                      \* the events and messages the last step emitted

tgVars == <<sockState, awaitingProfile, clientUser, participantPreferences,
            activeSubscriptions, socketToUserMap, socketToMeetingMap,
            subscribeJoin, unsubscribeLeave, subscribedLanguage>>
castVars == <<broadcasts, nextUtterance, translateCalls, translateFailed, inbox>>
rtVars == <<rtState, openaiConnections, sessionReady, clientLanguages, upstream, feedback>>

\* An event emitted to a client; session is the upstream WebSocket whose
\* callback emitted it, 0 when a handler of the gateway did.  A message sent
\* to an upstream WebSocket has "upstream" for its receiver and the
\* WebSocket for its session.
EmitFrom(to, type, msg, session) ==
    [to |-> to, type |-> type, msg |-> msg, session |-> session]
Emit(to, type, msg) == EmitFrom(to, type, msg, 0)

\* The step emits the events E.
Emits(E) == out' = E

-----------------------------------------------------------------------------
(* TranscriptionGateway: connection, subscription, disconnection.          *)

\* The body of handleDisconnect, as the maps after it.
disconnectedSubscriptions(s) ==
    [m \in Meetings |-> activeSubscriptions[m] \ {s}]

\* A mutant of disconnectedPreferences: the preferences of the user of the
\* socket are erased with its subscriptions.
disconnectedPreferencesErased(s) ==
    [m \in Meetings |->
        [u \in Users |-> IF u = socketToUserMap[s] THEN undefined
                         ELSE participantPreferences[m][u]]]

\* participantPreferences after handleDisconnect, which has no statement on
\* it.
disconnectedPreferences(s) == participantPreferences

handleDisconnect(s) ==
    /\ activeSubscriptions' = disconnectedSubscriptions(s)
    /\ participantPreferences' = disconnectedPreferences(s)
    /\ socketToUserMap' = [socketToUserMap EXCEPT ![s] = None]
    /\ socketToMeetingMap' = [socketToMeetingMap EXCEPT ![s] = None]
    /\ sockState' = [sockState EXCEPT ![s] = "closed"]
    \* the client of a closed socket holds nothing
    /\ subscribedLanguage' = [subscribedLanguage EXCEPT ![s] = undefined]

\* handleConnection up to `await getProfile`.  token: "missing", "invalid" or
\* the user id (payload.sub) of a token that verifies.
handleConnection(s, token) ==
    /\ sockState[s] = "fresh"
    /\ IF token \in {"missing", "invalid"}
       THEN /\ Emits({Emit(s, "ERROR",
                             IF token = "missing"
                             THEN "No authentication token provided"
                             ELSE "Invalid authentication token")})
            \* client.disconnect()
            /\ handleDisconnect(s)
            /\ UNCHANGED awaitingProfile
       ELSE /\ sockState' = [sockState EXCEPT ![s] = "open"]
            /\ awaitingProfile' = [awaitingProfile EXCEPT ![s] = token]
            /\ Emits({})
            /\ UNCHANGED <<activeSubscriptions, socketToUserMap, socketToMeetingMap,
                           participantPreferences, subscribedLanguage>>
    /\ UNCHANGED <<clientUser, subscribeJoin, unsubscribeLeave>>
    /\ UNCHANGED <<castVars, rtVars>>

\* handleConnection after getProfile answered: found says whether the
\* member exists.
handleConnectionProfile(s, found) ==
    /\ awaitingProfile[s] # None
    /\ awaitingProfile' = [awaitingProfile EXCEPT ![s] = None]
    /\ IF ~found
       THEN /\ Emits({Emit(s, "ERROR", "User not found")})
            /\ handleDisconnect(s)
            /\ UNCHANGED clientUser
       ELSE /\ clientUser' = [clientUser EXCEPT ![s] = awaitingProfile[s]]
            /\ socketToUserMap' = [socketToUserMap EXCEPT ![s] = awaitingProfile[s]]
            /\ Emits({})
            /\ UNCHANGED <<activeSubscriptions, socketToMeetingMap, sockState,
                           participantPreferences, subscribedLanguage>>
    /\ UNCHANGED <<subscribeJoin, unsubscribeLeave>>
    /\ UNCHANGED <<castVars, rtVars>>

\* The client, or the transport, closes an open socket.
clientDisconnect(s) ==
    /\ sockState[s] = "open"
    /\ handleDisconnect(s)
    /\ Emits({})
    /\ UNCHANGED <<awaitingProfile, clientUser, subscribeJoin, unsubscribeLeave>>
    /\ UNCHANGED <<castVars, rtVars>>

\* handleSubscribeSubtitles after client.join resolved (lines 175-207).
subscribeAfterJoin(j) ==
    /\ LET user == clientUser[j.socket]
       IN  IF user # None
           THEN /\ participantPreferences' =
                       [participantPreferences EXCEPT ![j.meetingId][user] = j.normalizedLanguage]
                /\ socketToUserMap' = [socketToUserMap EXCEPT ![j.socket] = user]
           ELSE UNCHANGED <<participantPreferences, socketToUserMap>>
    /\ activeSubscriptions' =
           [activeSubscriptions EXCEPT ![j.meetingId] = @ \cup {j.socket}]
    /\ socketToMeetingMap' = [socketToMeetingMap EXCEPT ![j.socket] = j.meetingId]
    /\ Emits({Emit(j.socket, "SUBSCRIBE_SUCCESS", j.meetingId)})
    /\ subscribedLanguage' = [subscribedLanguage EXCEPT ![j.socket] = j.normalizedLanguage]

\* A mutant of handleSubscribeSubtitles: a language that is neither 'en' nor
\* 'ko' is replaced by 'en' and the socket is subscribed.
handleSubscribeSubtitlesDefaultsToEnglish(s, meetingId, language, suspends) ==
    /\ sockState[s] = "open"
    /\ IF meetingId = None \/ Falsy(language)
       THEN /\ Emits({Emit(s, "ERROR", "Meeting ID and language are required")})
            /\ UNCHANGED <<participantPreferences, activeSubscriptions,
                           socketToUserMap, socketToMeetingMap, subscribeJoin,
                           subscribedLanguage>>
       ELSE LET given == trim(toLowerCase(language))
                normalizedLanguage == IF given # EN /\ given # KO THEN EN ELSE given
                j == [socket |-> s, meetingId |-> meetingId,
                      normalizedLanguage |-> normalizedLanguage]
            IN  IF suspends
                THEN /\ subscribeJoin' = subscribeJoin \cup {j}
                     /\ Emits({})
                     /\ UNCHANGED <<participantPreferences, activeSubscriptions,
                                    socketToUserMap, socketToMeetingMap,
                                    subscribedLanguage>>
                ELSE /\ subscribeAfterJoin(j)
                     /\ UNCHANGED subscribeJoin
    /\ UNCHANGED <<sockState, awaitingProfile, clientUser, unsubscribeLeave>>
    /\ UNCHANGED <<castVars, rtVars>>

\* handleSubscribeSubtitles up to `await client.join(meetingId)`.  With the
\* in-memory adapter join is done at once and the handler runs to its end
\* (suspends = FALSE); with an adapter that answers later the handler is
\* suspended at the await (suspends = TRUE).
handleSubscribeSubtitles(s, meetingId, language, suspends) ==
    /\ sockState[s] = "open"
    /\ IF meetingId = None \/ Falsy(language)
       THEN /\ Emits({Emit(s, "ERROR", "Meeting ID and language are required")})
            /\ UNCHANGED <<participantPreferences, activeSubscriptions,
                           socketToUserMap, socketToMeetingMap, subscribeJoin,
                           subscribedLanguage>>
       ELSE LET normalizedLanguage == trim(toLowerCase(language))
                j == [socket |-> s, meetingId |-> meetingId,
                      normalizedLanguage |-> normalizedLanguage]
            IN  IF normalizedLanguage # EN /\ normalizedLanguage # KO
                THEN /\ Emits({Emit(s, "ERROR", "Invalid language code")})
                     /\ UNCHANGED <<participantPreferences, activeSubscriptions,
                                    socketToUserMap, socketToMeetingMap, subscribeJoin,
                                    subscribedLanguage>>
                ELSE IF suspends
                THEN /\ subscribeJoin' = subscribeJoin \cup {j}
                     /\ Emits({})
                     /\ UNCHANGED <<participantPreferences, activeSubscriptions,
                                    socketToUserMap, socketToMeetingMap,
                                    subscribedLanguage>>
                ELSE /\ subscribeAfterJoin(j)
                     /\ UNCHANGED subscribeJoin
    /\ UNCHANGED <<sockState, awaitingProfile, clientUser, unsubscribeLeave>>
    /\ UNCHANGED <<castVars, rtVars>>

\* A suspended handleSubscribeSubtitles resumes.
handleSubscribeSubtitlesJoined(j) ==
    /\ j \in subscribeJoin
    /\ subscribeJoin' = subscribeJoin \ {j}
    /\ subscribeAfterJoin(j)
    /\ UNCHANGED <<sockState, awaitingProfile, clientUser, unsubscribeLeave>>
    /\ UNCHANGED <<castVars, rtVars>>

\* handleUnsubscribeSubtitles after client.leave resolved (lines 238-251).
unsubscribeAfterLeave(l) ==
    /\ activeSubscriptions' =
           [activeSubscriptions EXCEPT ![l.meetingId] = @ \ {l.socket}]
    /\ Emits({Emit(l.socket, "UNSUBSCRIBE_SUCCESS", l.meetingId)})

\* A mutant of handleUnsubscribeSubtitles: without a meeting id the socket
\* is unsubscribed from the meeting it was last subscribed to.
handleUnsubscribeSubtitlesCurrentMeeting(s, meetingId, suspends) ==
    /\ sockState[s] = "open"
    /\ LET current == IF meetingId = None THEN socketToMeetingMap[s] ELSE meetingId
           l == [socket |-> s, meetingId |-> current]
       IN  IF current = None
           THEN /\ Emits({Emit(s, "ERROR", "Meeting ID is required")})
                /\ UNCHANGED <<activeSubscriptions, unsubscribeLeave>>
           ELSE IF suspends
                THEN /\ unsubscribeLeave' = unsubscribeLeave \cup {l}
                     /\ Emits({})
                     /\ UNCHANGED activeSubscriptions
                ELSE /\ unsubscribeAfterLeave(l)
                     /\ UNCHANGED unsubscribeLeave
    /\ UNCHANGED <<sockState, awaitingProfile, clientUser, participantPreferences,
                   socketToUserMap, socketToMeetingMap, subscribeJoin,
                   subscribedLanguage>>
    /\ UNCHANGED <<castVars, rtVars>>

\* handleUnsubscribeSubtitles up to `await client.leave(meetingId)`.
handleUnsubscribeSubtitles(s, meetingId, suspends) ==
    /\ sockState[s] = "open"
    /\ IF meetingId = None
       THEN /\ Emits({Emit(s, "ERROR", "Meeting ID is required")})
            /\ UNCHANGED <<activeSubscriptions, unsubscribeLeave>>
       ELSE LET l == [socket |-> s, meetingId |-> meetingId]
            IN  IF suspends
                THEN /\ unsubscribeLeave' = unsubscribeLeave \cup {l}
                     /\ Emits({})
                     /\ UNCHANGED activeSubscriptions
                ELSE /\ unsubscribeAfterLeave(l)
                     /\ UNCHANGED unsubscribeLeave
    /\ UNCHANGED <<sockState, awaitingProfile, clientUser, participantPreferences,
                   socketToUserMap, socketToMeetingMap, subscribeJoin,
                   subscribedLanguage>>
    /\ UNCHANGED <<castVars, rtVars>>

\* A suspended handleUnsubscribeSubtitles resumes.
handleUnsubscribeSubtitlesLeft(l) ==
    /\ l \in unsubscribeLeave
    /\ unsubscribeLeave' = unsubscribeLeave \ {l}
    /\ unsubscribeAfterLeave(l)
    /\ UNCHANGED <<sockState, awaitingProfile, clientUser, participantPreferences,
                   socketToUserMap, socketToMeetingMap, subscribeJoin,
                   subscribedLanguage>>
    /\ UNCHANGED <<castVars, rtVars>>

-----------------------------------------------------------------------------
(* TranscriptionGateway.broadcastSubtitle, split at its one await.         *)

\* Sample texts: utterances and provider completions.
TxtGoodMorning == <<"g", "o", "o", "d", " ", "d", "a", "y">>
TxtUhUmAh == <<"u", "h", " ", "u", "m", " ", "a", "h">>
TxtYouIdiot == <<"y", "o", "u", " ", "I", "d", "i", "o", "t">>
TxtThanks == <<"T", "h", "a", "n", "k", "s", " ", "f", "o", "r", " ", "w", "a", "t", "c", "h", "i", "n", "g">>
TxtKorean == <<"H1", "H2", " ", "H3", "H1", " ">>
TxtBlank == <<" ">>

UtteranceTexts == {TxtGoodMorning, TxtBlank}
SourceLanguages == {EN, KO, <<"K", "O", " ">>, <<"j", "a">>, undefined}
ProviderAnswers ==
    { ProviderError, ProviderContent(undefined), ProviderContent(TxtKorean),
      ProviderContent(TxtYouIdiot), ProviderContent(TxtThanks) }

\* The language a subscribed socket is served in (lines 313-325), None when
\* the socket has no user mapping.
userLang(meetingId, socketId) ==
    LET userId == socketToUserMap[socketId]
        pref == IF userId = None THEN undefined
                ELSE participantPreferences[meetingId][userId]
        l == trim(toLowerCase(IF Falsy(pref) THEN EN ELSE pref))
    IN  IF l # EN /\ l # KO THEN EN ELSE l

\* A mutant of shouldShow: every subscriber is served, whatever the source.
shouldShowAlways(lang, sourceLanguage) == TRUE

shouldShow(lang, sourceLanguage) ==
    \/ lang = EN /\ sourceLanguage = KO
    \/ lang = KO /\ sourceLanguage = EN

\* A mutant of languageGroups: the loop runs over every mapped socket
\* instead of the subscribers of the meeting.
languageGroupsOfAllSockets(meetingId, sourceLanguage) ==
    LET group(lang) ==
            {socketId \in Sockets :
                /\ socketToUserMap[socketId] # None
                /\ userLang(meetingId, socketId) = lang
                /\ shouldShow(lang, sourceLanguage)}
    IN  [lang \in {l \in supportedLanguages : group(l) # {}} |-> group(lang)]

\* languageGroups: target language -> the sockets served in it.
languageGroups(meetingId, sourceLanguage) ==
    LET group(lang) ==
            {socketId \in activeSubscriptions[meetingId] :
                /\ socketToUserMap[socketId] # None
                /\ userLang(meetingId, socketId) = lang
                /\ shouldShow(lang, sourceLanguage)}
    IN  [lang \in {l \in supportedLanguages : group(l) # {}} |-> group(lang)]

\* A mutant of translationRequests: one request for each subscriber.
translationRequestsPerSubscriber(groups) ==
    [lang \in DOMAIN groups |-> Cardinality(groups[lang])]

\* The translateText calls of the loop over languageGroups.entries():
\* target language -> number of calls.
translationRequests(groups) ==
    [lang \in DOMAIN groups |-> Cardinality({entry \in DOMAIN groups : entry = lang})]

\* The .then of line 378: result.translatedText || originalText.
thenTranslatedText(translatedText, originalText) ==
    IF Falsy(translatedText) THEN originalText ELSE translatedText

SubtitleEvent(type, b, lang, text) ==
    [type |-> type, utterance |-> b.utterance, meetingId |-> b.meetingId,
     originalText |-> b.originalText, translatedText |-> text,
     sourceLanguage |-> b.sourceLanguage, targetLanguage |-> lang]

\* The event the delivery loop (lines 428-464) emits to the sockets of one
\* language group.
groupEvent(b, lang) ==
    LET translatedText == b.translationMap[lang]
    IN  IF Falsy(translatedText) \/ Len(trim(translatedText)) = 0
        THEN SubtitleEvent("TRANSLATION_ERROR", b, lang, <<>>)
        ELSE SubtitleEvent("SUBTITLE_UPDATE", b, lang, trim(translatedText))

\* A mutant of deliver: a failed translation is reported by the loop over
\* the settled promises and again by the delivery loop.
deliverReportsFailureTwice(b, emitted) ==
    LET groupOf(s) == {lang \in DOMAIN b.languageGroups : s \in b.languageGroups[lang]}
        events(s) ==
            LET e == groupEvent(b, CHOOSE lang \in groupOf(s) : TRUE)
            IN  IF e.type = "TRANSLATION_ERROR" THEN <<e, e>> ELSE <<e>>
    IN  /\ inbox' = [s \in Sockets |->
                        IF groupOf(s) = {} THEN inbox[s] ELSE inbox[s] \o events(s)]
        /\ Emits(emitted \cup UNION {{Emit(s, groupEvent(b, lang).type, b.meetingId) :
                             s \in b.languageGroups[lang]} :
                         lang \in DOMAIN b.languageGroups})

\* The part of broadcastSubtitle after Promise.allSettled; emitted are the
\* events the caller emitted in the same step.
deliver(b, emitted) ==
    LET groupOf(s) == {lang \in DOMAIN b.languageGroups : s \in b.languageGroups[lang]}
    IN  /\ inbox' = [s \in Sockets |->
                        IF groupOf(s) = {} THEN inbox[s]
                        ELSE Append(inbox[s], groupEvent(b, CHOOSE lang \in groupOf(s) : TRUE))]
        /\ Emits(emitted \cup UNION {{Emit(s, groupEvent(b, lang).type, b.meetingId) :
                             s \in b.languageGroups[lang]} :
                         lang \in DOMAIN b.languageGroups})

\* A mutant of broadcastIgnored: every subscriber of the meeting is told of
\* the utterance that was dropped.
broadcastIgnoredNotifies(meetingId, emitted) ==
    LET e == [type |-> "TRANSLATION_ERROR", utterance |-> nextUtterance,
              meetingId |-> meetingId, originalText |-> <<>>,
              translatedText |-> <<>>, sourceLanguage |-> undefined,
              targetLanguage |-> undefined]
    IN  /\ inbox' = [s \in Sockets |->
                        IF s \in activeSubscriptions[meetingId]
                        THEN Append(inbox[s], e) ELSE inbox[s]]
        /\ Emits(emitted \cup {Emit(s, "TRANSLATION_ERROR", meetingId) :
                                   s \in activeSubscriptions[meetingId]})
        /\ UNCHANGED <<broadcasts, translateCalls, translateFailed>>

\* The early returns of broadcastSubtitle (no subscribers, lines 273-289;
\* a source language other than 'en' and 'ko', lines 300-305; no language
\* group): nothing is requested, emitted or written.
broadcastIgnored(meetingId, emitted) ==
    /\ Emits(emitted)
    /\ UNCHANGED <<broadcasts, translateCalls, translateFailed, inbox>>

\* broadcastSubtitle up to `await Promise.allSettled`; with no request to the
\* provider outstanding the promises are settled and it runs to its end.
broadcastSubtitleStart(meetingId, originalText, source, emitted) ==
    LET sourceLanguage == trim(toLowerCase(IF Falsy(source) THEN EN ELSE source))
        groups == languageGroups(meetingId, sourceLanguage)
        asked == {lang \in DOMAIN groups :
                     translateTextCallsProvider(originalText, lang, sourceLanguage)}
        b == [utterance |-> nextUtterance, meetingId |-> meetingId,
              originalText |-> originalText, sourceLanguage |-> sourceLanguage,
              languageGroups |-> groups, pending |-> asked,
              translationMap |->
                  [lang \in DOMAIN groups \ asked |->
                      thenTranslatedText(
                          translateTextLocal(originalText, lang, sourceLanguage),
                          originalText)]]
    IN  /\ nextUtterance <= MaxUtterances
        /\ nextUtterance' = nextUtterance + 1
        /\ IF \/ activeSubscriptions[meetingId] = {}
              \/ sourceLanguage \notin supportedLanguages
              \/ DOMAIN groups = {}
           THEN broadcastIgnored(meetingId, emitted)
           ELSE /\ translateFailed' =
                       [translateFailed EXCEPT ![nextUtterance] =
                           {lang \in DOMAIN groups \ asked :
                               Falsy(translateTextLocal(originalText, lang, sourceLanguage))}]
                /\ translateCalls' =
                       [translateCalls EXCEPT ![nextUtterance] =
                           [lang \in supportedLanguages |->
                               IF lang \in DOMAIN groups
                               THEN translationRequests(groups)[lang] ELSE 0]]
                /\ IF asked = {}
                   THEN deliver(b, emitted) /\ UNCHANGED broadcasts
                   ELSE /\ broadcasts' = broadcasts \cup {b}
                        /\ Emits(emitted)
                        /\ UNCHANGED inbox

\* An utterance reaches broadcastSubtitle.
broadcastSubtitle(meetingId, originalText, source) ==
    /\ broadcastSubtitleStart(meetingId, originalText, source, {})
    /\ UNCHANGED <<tgVars, rtVars>>

\* The provider answers the request of one language group; the last answer
\* settles Promise.allSettled and broadcastSubtitle runs to its end.
providerAnswers(b, lang, answer) ==
    /\ b \in broadcasts
    /\ lang \in b.pending
    /\ LET translatedText ==
               thenTranslatedText(translateTextAfterProvider(b.originalText, answer),
                                  b.originalText)
           nb == [b EXCEPT !.pending = @ \ {lang},
                           !.translationMap =
                               [l \in DOMAIN @ \cup {lang} |->
                                   IF l = lang THEN translatedText ELSE @[l]]]
       IN  IF nb.pending = {}
           THEN /\ deliver(nb, {})
                /\ broadcasts' = broadcasts \ {b}
           ELSE /\ broadcasts' = (broadcasts \ {b}) \cup {nb}
                /\ Emits({})
                /\ UNCHANGED inbox
    /\ translateFailed' =
           [translateFailed EXCEPT ![b.utterance] =
               IF providerFailed(answer) THEN @ \cup {lang} ELSE @]
    /\ UNCHANGED <<nextUtterance, translateCalls>>
    /\ UNCHANGED <<tgVars, rtVars>>

-----------------------------------------------------------------------------
(* RealtimeTranscriptionGateway and RealtimeTranscriptionService: one      *)
(* upstream WebSocket per START_REALTIME_TRANSCRIPTION, the ready wait,    *)
(* audio forwarding, the callbacks of the upstream WebSocket.              *)

\* A JavaScript Map as a function on the keys it holds.
EmptyMap == [k \in {} |-> None]
MapHas(map, k) == k \in DOMAIN map
MapSet(map, k, v) == [x \in DOMAIN map \cup {k} |-> IF x = k THEN v ELSE map[x]]
MapDelete(map, k) == [x \in DOMAIN map \ {k} |-> map[x]]

\* readyState of a WebSocket of the ws package.
CONNECTING == 0
OPEN == 1
CLOSING == 2
CLOSED == 3

maxWaitTime == 5000
checkInterval == 100
FORCE_FINAL_INTERVAL == 60000

\* this.sessionReady.get(client.id) && openaiWs.readyState === 1
isReady(c, w) ==
    /\ MapHas(sessionReady, c)
    /\ sessionReady[c]
    /\ upstream[w].readyState = OPEN

\* openaiWs.close() called by caller: the call is recorded, and an open or
\* connecting WebSocket starts closing.
wsClose(ups, w, caller) ==
    IF ups[w].readyState \in {CONNECTING, OPEN}
    THEN [ups EXCEPT ![w].readyState = CLOSING, ![w].closeCalls = Append(@, caller)]
    ELSE [ups EXCEPT ![w].closeCalls = Append(@, caller)]

\* RealtimeTranscriptionGateway.handleDisconnect (lines 89-104).
realtimeHandleDisconnect(c, ups) ==
    /\ IF MapHas(openaiConnections, c)
       THEN /\ upstream' = wsClose(ups, openaiConnections[c], "handleDisconnect")
            /\ openaiConnections' = MapDelete(openaiConnections, c)
       ELSE /\ upstream' = ups
            /\ UNCHANGED openaiConnections
    /\ sessionReady' = MapDelete(sessionReady, c)
    /\ clientLanguages' = MapDelete(clientLanguages, c)
    /\ rtState' = [rtState EXCEPT ![c] = "closed"]

\* RealtimeTranscriptionGateway.handleConnection (lines 65-87): a missing or
\* unverifiable token disconnects the client.
realtimeHandleConnection(c, token) ==
    /\ rtState[c] = "fresh"
    /\ IF token \in {"missing", "invalid"}
       THEN realtimeHandleDisconnect(c, upstream)
       ELSE /\ rtState' = [rtState EXCEPT ![c] = "open"]
            /\ UNCHANGED <<openaiConnections, sessionReady, clientLanguages, upstream>>
    /\ Emits({})
    /\ UNCHANGED <<feedback, tgVars, castVars>>

\* The client, or the transport, closes an open socket of the realtime
\* namespace.
realtimeClientDisconnect(c) ==
    /\ rtState[c] = "open"
    /\ realtimeHandleDisconnect(c, upstream)
    /\ Emits({})
    /\ UNCHANGED <<feedback, tgVars, castVars>>

\* handleStartTranscription (lines 109-485) up to `await waitForSession()`:
\* the tables are set, the WebSocket is created and stored, the listeners
\* are added and checkSession has run once.
handleStartTranscription(c, meetingId, language) ==
    /\ rtState[c] = "open"
    /\ IF meetingId = None
       THEN /\ Emits({Emit(c, "ERROR", "Meeting ID is required")})
            /\ UNCHANGED <<openaiConnections, sessionReady, clientLanguages, upstream>>
       ELSE LET initialLanguage == IF Falsy(language) THEN EN ELSE language
                w == Len(upstream) + 1
            IN  /\ Len(upstream) < MaxUpstream
                /\ sessionReady' = MapSet(sessionReady, c, FALSE)
                /\ clientLanguages' = MapSet(clientLanguages, c, initialLanguage)
                /\ upstream' = Append(upstream,
                       [client |-> c, meetingId |-> meetingId,
                        initialLanguage |-> initialLanguage,
                        readyState |-> CONNECTING,
                        ready |-> FALSE,       \* it has sent session.created / session.updated
                        waiting |-> TRUE,      \* checkSession is still scheduled
                        waited |-> checkInterval,
                        stopped |-> FALSE,     \* handleStopTranscription closed it
                        closeCalls |-> <<>>,   \* the callers of its close(), in order
                        \* Date.now() - lastFinalResultTime
                        lastFinalResultAge |-> 0,
                        \* the time since its last final result, or its start
                        sinceFinal |-> 0,
                        \* the warning of line 176 was logged
                        longSpeechLogged |-> FALSE])
                /\ openaiConnections' = MapSet(openaiConnections, c, w)
                /\ Emits({})
    /\ UNCHANGED <<rtState, feedback, tgVars, castVars>>

\* checkSession of waitForSession (lines 449-463), run by its timer:
\* PollStride polls in a row, the last of them deciding.
checkSession(w) ==
    /\ w \in DOMAIN upstream
    /\ upstream[w].waiting
    /\ LET c == upstream[w].client
           polls == (maxWaitTime - upstream[w].waited) \div checkInterval
       IN  IF isReady(c, w)
           THEN /\ Emits({EmitFrom(c, "TRANSCRIPTION_STARTED", upstream[w].meetingId, w)})
                /\ upstream' = [upstream EXCEPT ![w].waiting = FALSE]
           ELSE IF upstream[w].waited >= maxWaitTime \/ polls < PollStride
           THEN /\ Emits({EmitFrom(c, "ERROR",
                       "Timeout: OpenAI session did not become ready within 5 seconds", w)})
                /\ upstream' = [upstream EXCEPT ![w].waiting = FALSE,
                                                ![w].waited = maxWaitTime]
           ELSE /\ Emits({})
                /\ upstream' = [upstream EXCEPT
                                   ![w].waited = @ + PollStride * checkInterval]
    /\ UNCHANGED <<rtState, openaiConnections, sessionReady, clientLanguages, feedback,
                   tgVars, castVars>>

\* The 'open' event of an upstream WebSocket (auth.service.ts lines 128-160).
upstreamOpen(w) ==
    /\ w \in DOMAIN upstream
    /\ upstream[w].readyState = CONNECTING
    /\ upstream' = [upstream EXCEPT ![w].readyState = OPEN]
    /\ Emits({})
    /\ UNCHANGED <<rtState, openaiConnections, sessionReady, clientLanguages, feedback,
                   tgVars, castVars>>

\* The connection timeout of createProxyConnection (auth.service.ts lines
\* 208-221); its 10 s end after the 5 s of waitForSession.
connectionTimeout(w) ==
    /\ w \in DOMAIN upstream
    /\ upstream[w].readyState = CONNECTING
    /\ ~upstream[w].waiting
    /\ upstream' = wsClose(upstream, w, "connectionTimeout")
    /\ Emits({EmitFrom(upstream[w].client, "ERROR",
                       "Connection timeout - OpenAI Realtime API did not respond", w)})
    /\ UNCHANGED <<rtState, openaiConnections, sessionReady, clientLanguages, feedback,
                   tgVars, castVars>>

\* The close codes followed: normal closure, no status received, abnormal
\* closure.
CloseCodes == {1000, 1005, 1006}

\* A mutant of upstreamClose: only the no-status code is closed silently.
upstreamCloseSilentOn1005(w, code) ==
    /\ w \in DOMAIN upstream
    /\ upstream[w].readyState # CLOSED
    /\ upstream' = [upstream EXCEPT ![w].readyState = CLOSED]
    /\ IF code # 1005
       THEN Emits({EmitFrom(upstream[w].client, "ERROR", "WebSocket closed unexpectedly", w)})
       ELSE Emits({})
    /\ UNCHANGED <<rtState, openaiConnections, sessionReady, clientLanguages, feedback,
                   tgVars, castVars>>

\* The 'close' event of an upstream WebSocket (auth.service.ts lines 187-205).
upstreamClose(w, code) ==
    /\ w \in DOMAIN upstream
    /\ upstream[w].readyState # CLOSED
    /\ upstream' = [upstream EXCEPT ![w].readyState = CLOSED]
    /\ IF code # 1000 /\ code # 1005
       THEN Emits({EmitFrom(upstream[w].client, "ERROR", "WebSocket closed unexpectedly", w)})
       ELSE Emits({})
    /\ UNCHANGED <<rtState, openaiConnections, sessionReady, clientLanguages, feedback,
                   tgVars, castVars>>

\* A session.created or session.updated message of an upstream WebSocket:
\* the listener of lines 381-404.  Messages are taken from an open WebSocket.
upstreamSessionMessage(w, type) ==
    /\ w \in DOMAIN upstream
    /\ upstream[w].readyState = OPEN
    /\ type \in {"session.created", "session.updated"}
    /\ sessionReady' = MapSet(sessionReady, upstream[w].client, TRUE)
    /\ upstream' = [upstream EXCEPT ![w].ready = TRUE]
    /\ Emits({EmitFrom(upstream[w].client, "REALTIME_MESSAGE", type, w)})
    /\ UNCHANGED <<rtState, openaiConnections, clientLanguages, feedback, tgVars, castVars>>

\* An error message of an upstream WebSocket: handleRealtimeMessage (lines
\* 333-341) and onError (lines 347-353).
upstreamErrorMessage(w) ==
    /\ w \in DOMAIN upstream
    /\ upstream[w].readyState = OPEN
    /\ Emits({EmitFrom(upstream[w].client, "REALTIME_MESSAGE", "error", w),
              EmitFrom(upstream[w].client, "ERROR", "Unknown error", w)})
    /\ UNCHANGED <<rtVars, tgVars, castVars>>

\* A mutant of partialEvents: the partial result also goes to the sockets of
\* the subtitle namespace.
partialEventsToSockets(w) ==
    {EmitFrom(upstream[w].client, "REALTIME_MESSAGE", "delta", w),
     EmitFrom(upstream[w].client, "PARTIAL_TRANSCRIPTION", "delta", w)}
        \cup {EmitFrom(s, "PARTIAL_TRANSCRIPTION", "delta", w) : s \in Sockets}

\* The events of onPartialResult: the delta forwarded by the message
\* listener (line 400) and the PARTIAL_TRANSCRIPTION of line 160.
partialEvents(w) ==
    {EmitFrom(upstream[w].client, "REALTIME_MESSAGE", "delta", w),
     EmitFrom(upstream[w].client, "PARTIAL_TRANSCRIPTION", "delta", w)}

\* A mutant of partialBroadcast: the text of the partial result is broadcast
\* as if it were final.
partialForcedFinal(w) ==
    /\ broadcastSubtitleStart(upstream[w].meetingId, <<"d", "e", "l", "t", "a">>, EN,
                              partialEvents(w))
    /\ UNCHANGED feedback

\* What onPartialResult does besides emitting to the client: nothing of the
\* subtitle broadcaster and no translation.
partialBroadcast(w) == UNCHANGED <<feedback, castVars>>

\* A transcription delta of an upstream WebSocket: onPartialResult (lines
\* 155-180).  Line 167 sets lastFinalResultTime to Date.now(), so the
\* timeSinceLastFinal of line 174 is the time between the two calls of
\* Date.now().
onPartialResult(w) ==
    /\ w \in DOMAIN upstream
    /\ upstream[w].readyState = OPEN
    /\ Emits(partialEvents(w))
    /\ LET lastFinalResultAge == 0
           timeSinceLastFinal == lastFinalResultAge
       IN  upstream' = [upstream EXCEPT
                           ![w].lastFinalResultAge = lastFinalResultAge,
                           ![w].longSpeechLogged =
                               @ \/ timeSinceLastFinal >= FORCE_FINAL_INTERVAL]
    /\ partialBroadcast(w)
    /\ UNCHANGED <<rtState, openaiConnections, sessionReady, clientLanguages,
                   tgVars>>

\* A mutant of speakerTargetLanguage: the language given at the start of the
\* session, whatever was stored since.
speakerTargetLanguageAtStart(c, w) == normalizeLanguage(upstream[w].initialLanguage)

\* The language onFinalResult and translateText map to en / ko, en when it is
\* neither (lines 267-296).
speakerTargetLanguage(c, w) ==
    LET stored == IF MapHas(clientLanguages, c) /\ ~Falsy(clientLanguages[c])
                  THEN clientLanguages[c] ELSE upstream[w].initialLanguage
    IN  normalizeLanguage(stored)

\* The source language of onFinalResult (lines 207-223).
normalizedSource(detectedLanguage) ==
    LET l == trim(toLowerCase(IF Falsy(detectedLanguage) THEN EN ELSE detectedLanguage))
    IN  IF l \in {<<"e", "n", "g", "l", "i", "s", "h">>, <<"e", "n", "g">>} THEN EN
        ELSE IF l \in {<<"k", "o", "r", "e", "a", "n">>, <<"k", "o", "r">>} THEN KO
        ELSE l

\* A completed transcription of an upstream WebSocket: handleRealtimeMessage
\* (auth.service.ts lines 285-331) and onFinalResult (lines 181-346), the
\* un-awaited broadcastSubtitle run to its await.
onFinalResult(w, text, detectedLanguage) ==
    /\ w \in DOMAIN upstream
    /\ upstream[w].readyState = OPEN
    /\ LET c == upstream[w].client
           language == IF Falsy(detectedLanguage) THEN EN ELSE detectedLanguage
           source == normalizedSource(language)
           target == speakerTargetLanguage(c, w)
           message == {EmitFrom(c, "REALTIME_MESSAGE", "completed", w)}
       IN  IF toLowerCase(language) \notin supportedLanguages \/ Falsy(text)
           THEN \* handleRealtimeMessage does not call onFinalResult
                /\ Emits(message)
                /\ upstream' = [upstream EXCEPT ![w].sinceFinal = 0]
                /\ UNCHANGED <<feedback, castVars>>
           ELSE /\ upstream' = [upstream EXCEPT ![w].lastFinalResultAge = 0,
                                                ![w].sinceFinal = 0]
                /\ IF ~validateTranscriptionQuality(text)
                   THEN \* the logger.warn of line 199 and the return of line 202
                        /\ Emits(message \cup
                                 {EmitFrom("log", "warn",
                                           "Rejected low-quality transcription", w)})
                        /\ UNCHANGED <<feedback, castVars>>
                   ELSE IF source \notin supportedLanguages
                   THEN /\ Emits(message)
                        /\ UNCHANGED <<feedback, castVars>>
                   ELSE /\ broadcastSubtitleStart(upstream[w].meetingId, text, source,
                                                  message)
                        /\ IF /\ source # target
                              /\ translateTextCallsProvider(text, target, source)
                           THEN feedback' = feedback \cup
                                    {[session |-> w, utterance |-> nextUtterance,
                                      text |-> text, target |-> target]}
                           ELSE UNCHANGED feedback
    /\ UNCHANGED <<rtState, openaiConnections, sessionReady, clientLanguages, tgVars>>

\* The provider answers the translateText of the speaker feedback: the .then
\* of lines 309-324.
feedbackAnswers(f, answer) ==
    /\ f \in feedback
    /\ feedback' = feedback \ {f}
    /\ LET translatedText == translateTextAfterProvider(f.text, answer)
       IN  IF ~Falsy(translatedText) /\ Len(trim(translatedText)) > 0
           THEN Emits({EmitFrom(upstream[f.session].client, "FINAL_TRANSCRIPTION",
                                "translated", f.session)})
           ELSE Emits({})
    /\ UNCHANGED <<rtState, openaiConnections, sessionReady, clientLanguages, upstream,
                   tgVars, castVars>>

\* An AUDIO_CHUNK of the client: every listener handleStartTranscription
\* added for the client runs (lines 408-439), each with its own WebSocket.
audioChunk(c) ==
    /\ rtState[c] = "open"
    /\ LET listeners == {w \in DOMAIN upstream : upstream[w].client = c}
           forwarded == {w \in listeners : isReady(c, w)}
       IN  /\ listeners # {}
           /\ Emits({EmitFrom("upstream", "input_audio_buffer.append", "", w) :
                         w \in forwarded})
    /\ UNCHANGED <<rtVars, tgVars, castVars>>

\* Time passes for an open upstream WebSocket: TickMs more on what Date.now()
\* returns (lines 139, 167, 174, 184), followed up to MaxTicks ticks.
timePasses(w) ==
    /\ w \in DOMAIN upstream
    /\ upstream[w].readyState = OPEN
    /\ upstream[w].sinceFinal < MaxTicks * TickMs
    /\ upstream' = [upstream EXCEPT
                       ![w].lastFinalResultAge =
                           IF @ < MaxTicks * TickMs THEN @ + TickMs ELSE @,
                       ![w].sinceFinal = @ + TickMs]
    /\ Emits({})
    /\ UNCHANGED <<rtState, openaiConnections, sessionReady, clientLanguages, feedback,
                   tgVars, castVars>>

\* A mutant of handleUpdateLanguage: an accepted update is sent to the
\* upstream WebSocket as a session.update and the session waits for the
\* upstream to confirm it.
handleUpdateLanguageSessionUpdate(c, language) ==
    /\ rtState[c] = "open"
    /\ IF \/ ~MapHas(openaiConnections, c)
          \/ upstream[openaiConnections[c]].readyState # OPEN
          \/ Falsy(language)
       THEN /\ Emits({Emit(c, "ERROR", "Language not updated")})
            /\ UNCHANGED <<clientLanguages, sessionReady>>
       ELSE /\ Emits({EmitFrom("upstream", "session.update", "", openaiConnections[c])})
            /\ clientLanguages' = MapSet(clientLanguages, c, language)
            /\ sessionReady' = MapSet(sessionReady, c, FALSE)
    /\ UNCHANGED <<rtState, openaiConnections, upstream, feedback, tgVars, castVars>>

\* handleUpdateLanguage (lines 490-552).
handleUpdateLanguage(c, language) ==
    /\ rtState[c] = "open"
    /\ IF ~MapHas(openaiConnections, c)
       THEN /\ Emits({Emit(c, "ERROR", "Transcription not started")})
            /\ UNCHANGED clientLanguages
       ELSE IF upstream[openaiConnections[c]].readyState # OPEN
       THEN /\ Emits({Emit(c, "ERROR", "WebSocket connection not ready")})
            /\ UNCHANGED clientLanguages
       ELSE IF Falsy(language)
       THEN /\ Emits({Emit(c, "ERROR", "Language is required")})
            /\ UNCHANGED clientLanguages
       ELSE LET oldLanguage == IF MapHas(clientLanguages, c) /\ ~Falsy(clientLanguages[c])
                               THEN clientLanguages[c] ELSE EN
            IN  /\ Emits({})
                /\ IF oldLanguage = language
                   THEN UNCHANGED clientLanguages
                   ELSE clientLanguages' = MapSet(clientLanguages, c, language)
    /\ UNCHANGED <<rtState, openaiConnections, sessionReady, upstream, feedback,
                   tgVars, castVars>>

\* A mutant of handleStopTranscription: the WebSocket is closed and left in
\* openaiConnections.
handleStopTranscriptionKeepsHandle(c) ==
    /\ rtState[c] = "open"
    /\ IF MapHas(openaiConnections, c)
       THEN upstream' = [wsClose(upstream, openaiConnections[c],
                                 "handleStopTranscription")
                            EXCEPT ![openaiConnections[c]].stopped = TRUE]
       ELSE UNCHANGED upstream
    /\ UNCHANGED openaiConnections
    /\ sessionReady' = MapDelete(sessionReady, c)
    /\ Emits({Emit(c, "TRANSCRIPTION_STOPPED", "")})
    /\ UNCHANGED <<rtState, clientLanguages, feedback, tgVars, castVars>>

\* handleStopTranscription (lines 557-566).
handleStopTranscription(c) ==
    /\ rtState[c] = "open"
    /\ IF MapHas(openaiConnections, c)
       THEN /\ upstream' = [wsClose(upstream, openaiConnections[c],
                                        "handleStopTranscription")
                               EXCEPT ![openaiConnections[c]].stopped = TRUE]
            /\ openaiConnections' = MapDelete(openaiConnections, c)
       ELSE UNCHANGED <<upstream, openaiConnections>>
    /\ sessionReady' = MapDelete(sessionReady, c)
    /\ Emits({Emit(c, "TRANSCRIPTION_STOPPED", "")})
    /\ UNCHANGED <<rtState, clientLanguages, feedback, tgVars, castVars>>

-----------------------------------------------------------------------------
(* The specification of the subtitle registry and broadcaster.             *)

vars == <<tgVars, castVars, rtVars, out>>

\* The user a socket's token names; the first socket's user is called u1.
Tokens(s) == {"missing", "invalid"} \cup (IF s = "s1" THEN {"u1"} ELSE Users)
MeetingInputs == Meetings \cup {None}
LanguageInputs == {EN, KO, <<" ", "K", "o">>, <<"f", "r">>, undefined}

Init ==
    /\ sockState = [s \in Sockets |-> "fresh"]
    /\ awaitingProfile = [s \in Sockets |-> None]
    /\ clientUser = [s \in Sockets |-> None]
    /\ participantPreferences = [m \in Meetings |-> [u \in Users |-> undefined]]
    /\ activeSubscriptions = [m \in Meetings |-> {}]
    /\ socketToUserMap = [s \in Sockets |-> None]
    /\ socketToMeetingMap = [s \in Sockets |-> None]
    /\ subscribeJoin = {}
    /\ unsubscribeLeave = {}
    /\ subscribedLanguage = [s \in Sockets |-> undefined]
    /\ broadcasts = {}
    /\ nextUtterance = 1
    /\ translateCalls = [u \in 1..MaxUtterances |-> [lang \in supportedLanguages |-> 0]]
    /\ translateFailed = [u \in 1..MaxUtterances |-> {}]
    /\ inbox = [s \in Sockets |-> <<>>]
    /\ rtState = [c \in Clients |-> "fresh"]
    /\ openaiConnections = EmptyMap
    /\ sessionReady = EmptyMap
    /\ clientLanguages = EmptyMap
    /\ upstream = <<>>
    /\ feedback = {}
    /\ out = {}

\* The handlers suspended at an await: getProfile, client.join, client.leave.
Suspended ==
    Cardinality({s \in Sockets : awaitingProfile[s] # None})
        + Cardinality(subscribeJoin) + Cardinality(unsubscribeLeave)

\* The registry: every interleaving of the connection and subscription
\* handlers, each suspended at its await, with up to MaxSuspended of them
\* suspended at a time.  A handler that resumes at once behaves as the
\* in-memory adapter makes it behave.
Next ==
    \/ \E s \in Sockets : \E token \in Tokens(s) :
           Suspended < MaxSuspended /\ handleConnection(s, token)
    \/ \E s \in Sockets, found \in BOOLEAN : handleConnectionProfile(s, found)
    \/ \E s \in Sockets : clientDisconnect(s)
    \/ \E s \in Sockets, m \in MeetingInputs, l \in LanguageInputs :
           Suspended < MaxSuspended /\ handleSubscribeSubtitles(s, m, l, TRUE)
    \/ \E j \in subscribeJoin : handleSubscribeSubtitlesJoined(j)
    \/ \E s \in Sockets, m \in MeetingInputs :
           Suspended < MaxSuspended /\ handleUnsubscribeSubtitles(s, m, TRUE)
    \/ \E l \in unsubscribeLeave : handleUnsubscribeSubtitlesLeft(l)

Spec == Init /\ [][Next]_vars

\* The broadcaster: the utterances of one meeting are broadcast to the
\* subscribers the registry holds, join and leave done at once; a behaviour
\* ends when its last utterance has been delivered.
CastMeetings == {"m1"}
CastDone == nextUtterance > MaxUtterances /\ broadcasts = {}

NextCast ==
    \/ \E s \in Sockets : \E token \in Tokens(s) : ~CastDone /\ handleConnection(s, token)
    \/ \E s \in Sockets, found \in BOOLEAN : ~CastDone /\ handleConnectionProfile(s, found)
    \/ \E s \in Sockets : ~CastDone /\ clientDisconnect(s)
    \/ \E s \in Sockets, m \in CastMeetings \cup {None}, l \in LanguageInputs :
           ~CastDone /\ handleSubscribeSubtitles(s, m, l, FALSE)
    \/ \E s \in Sockets, m \in CastMeetings \cup {None} :
           ~CastDone /\ handleUnsubscribeSubtitles(s, m, FALSE)
    \/ \E m \in CastMeetings, t \in UtteranceTexts, src \in SourceLanguages :
           broadcastSubtitle(m, t, src)
    \/ \E b \in broadcasts, lang \in supportedLanguages, a \in ProviderAnswers :
           providerAnswers(b, lang, a)

SpecCast == Init /\ [][NextCast]_vars

\* The broadcaster with both meetings: sockets subscribe to either meeting
\* and the utterances of meeting m1 are broadcast.
NextCross ==
    \/ \E s \in Sockets : \E token \in Tokens(s) : ~CastDone /\ handleConnection(s, token)
    \/ \E s \in Sockets, found \in BOOLEAN : ~CastDone /\ handleConnectionProfile(s, found)
    \/ \E s \in Sockets : ~CastDone /\ clientDisconnect(s)
    \/ \E s \in Sockets, m \in Meetings, l \in supportedLanguages :
           ~CastDone /\ handleSubscribeSubtitles(s, m, l, FALSE)
    \/ \E m \in CastMeetings, t \in UtteranceTexts, src \in supportedLanguages :
           broadcastSubtitle(m, t, src)
    \/ \E b \in broadcasts, lang \in supportedLanguages, a \in ProviderAnswers :
           providerAnswers(b, lang, a)

SpecCross == Init /\ [][NextCross]_vars

\* Two utterances of meeting m1, broadcast one after the other without
\* being awaited (realtime-transcription.gateway.ts lines 245-263): the
\* utterances are numbered from 0, so that one more than MaxUtterances is
\* broadcast in a behaviour.
InitOrder ==
    /\ sockState = [s \in Sockets |-> "fresh"]
    /\ awaitingProfile = [s \in Sockets |-> None]
    /\ clientUser = [s \in Sockets |-> None]
    /\ participantPreferences = [m \in Meetings |-> [u \in Users |-> undefined]]
    /\ activeSubscriptions = [m \in Meetings |-> {}]
    /\ socketToUserMap = [s \in Sockets |-> None]
    /\ socketToMeetingMap = [s \in Sockets |-> None]
    /\ subscribeJoin = {}
    /\ unsubscribeLeave = {}
    /\ subscribedLanguage = [s \in Sockets |-> undefined]
    /\ broadcasts = {}
    /\ nextUtterance = 0
    /\ translateCalls = [u \in 0..MaxUtterances |-> [lang \in supportedLanguages |-> 0]]
    /\ translateFailed = [u \in 0..MaxUtterances |-> {}]
    /\ inbox = [s \in Sockets |-> <<>>]
    /\ rtState = [c \in Clients |-> "fresh"]
    /\ openaiConnections = EmptyMap
    /\ sessionReady = EmptyMap
    /\ clientLanguages = EmptyMap
    /\ upstream = <<>>
    /\ feedback = {}
    /\ out = {}

NextOrder ==
    \/ \E s \in Sockets : \E token \in Tokens(s) : ~CastDone /\ handleConnection(s, token)
    \/ \E s \in Sockets, found \in BOOLEAN : ~CastDone /\ handleConnectionProfile(s, found)
    \/ \E s \in Sockets, l \in supportedLanguages :
           ~CastDone /\ handleSubscribeSubtitles(s, "m1", l, FALSE)
    \/ \E t \in UtteranceTexts, src \in supportedLanguages :
           broadcastSubtitle("m1", t, src)
    \/ \E b \in broadcasts, lang \in supportedLanguages, a \in ProviderAnswers :
           providerAnswers(b, lang, a)

SpecOrder == InitOrder /\ [][NextOrder]_vars

\* The realtime sessions: the handlers of the realtime namespace and the
\* callbacks of the upstream WebSockets, the final results broadcast to the
\* subscribers of the registry.
RealtimeTokens == {"missing", "invalid", "u1"}
RealtimeLanguageInputs == {KO}
UpdateLanguageInputs == {EN, <<"f", "r">>, undefined}
FinalTexts == {TxtGoodMorning, TxtUhUmAh}
DetectedLanguages == {EN, KO, <<"j", "a">>}

NextRT ==
    \/ \E c \in Clients, token \in RealtimeTokens : realtimeHandleConnection(c, token)
    \/ \E c \in Clients : realtimeClientDisconnect(c)
    \/ \E c \in Clients, m \in CastMeetings \cup {None}, l \in RealtimeLanguageInputs :
           handleStartTranscription(c, m, l)
    \/ \E c \in Clients, l \in UpdateLanguageInputs : handleUpdateLanguage(c, l)
    \/ \E c \in Clients : handleStopTranscription(c)
    \/ \E c \in Clients : audioChunk(c)
    \/ \E w \in DOMAIN upstream : checkSession(w)
    \/ \E w \in DOMAIN upstream : upstreamOpen(w)
    \/ \E w \in DOMAIN upstream : connectionTimeout(w)
    \/ \E w \in DOMAIN upstream, code \in CloseCodes : upstreamClose(w, code)
    \/ \E w \in DOMAIN upstream, type \in {"session.created", "session.updated"} :
           upstreamSessionMessage(w, type)
    \/ \E w \in DOMAIN upstream : upstreamErrorMessage(w)
    \/ \E w \in DOMAIN upstream : onPartialResult(w)
    \/ \E w \in DOMAIN upstream, t \in FinalTexts, l \in DetectedLanguages :
           onFinalResult(w, t, l)
    \/ \E f \in feedback, a \in ProviderAnswers : feedbackAnswers(f, a)

SpecRT == Init /\ [][NextRT]_vars

\* The two gateways side by side: the connections, subscriptions and session
\* starts of both namespaces, without utterances and before the upstream
\* WebSockets answer.
NextGateways ==
    \/ \E s \in Sockets : \E token \in Tokens(s) : handleConnection(s, token)
    \/ \E s \in Sockets, found \in BOOLEAN : handleConnectionProfile(s, found)
    \/ \E s \in Sockets : clientDisconnect(s)
    \/ \E s \in Sockets, m \in CastMeetings \cup {None}, l \in LanguageInputs :
           handleSubscribeSubtitles(s, m, l, FALSE)
    \/ \E s \in Sockets, m \in CastMeetings \cup {None} :
           handleUnsubscribeSubtitles(s, m, FALSE)
    \/ \E c \in Clients, token \in RealtimeTokens : realtimeHandleConnection(c, token)
    \/ \E c \in Clients : realtimeClientDisconnect(c)
    \/ \E c \in Clients, m \in CastMeetings \cup {None}, l \in RealtimeLanguageInputs :
           handleStartTranscription(c, m, l)

SpecGateways == Init /\ [][NextGateways]_vars

\* TranscriptionService.translateText called on its own, from its entry to
\* its return, the answer of the provider included: the step emits the call
\* and its result, providerCalls being the requests it sent.
translateText(text, targetLanguage, sourceLanguage, answer) ==
    LET calls == translateTextCallsProvider(text, targetLanguage, sourceLanguage)
        translatedText ==
            IF calls THEN translateTextAfterProvider(text, answer)
            ELSE translateTextLocal(text, targetLanguage, sourceLanguage)
    IN  /\ Emits({Emit("caller", "translateText",
                        [text |-> text, targetLanguage |-> targetLanguage,
                         sourceLanguage |-> sourceLanguage,
                         translatedText |-> translatedText,
                         providerCalls |-> IF calls THEN 1 ELSE 0])})
        /\ UNCHANGED <<tgVars, castVars, rtVars>>

TxtPadded == <<" ", "h", "i", " ">>
TxtOneLetter == <<"a">>
TranslateTexts == {TxtGoodMorning, TxtKorean, TxtPadded, TxtOneLetter, TxtBlank}
TranslateTargets == {EN, KO, <<"K", "O", " ">>, <<"k", "o", "r", "e", "a", "n">>, <<"f", "r">>}
TranslateSources == {EN, KO, <<"E", "n", "g">>, <<"j", "a">>, undefined}

NextTranslate ==
    \E text \in TranslateTexts, targetLanguage \in TranslateTargets,
       sourceLanguage \in TranslateSources, answer \in ProviderAnswers :
        translateText(text, targetLanguage, sourceLanguage, answer)

SpecTranslate == Init /\ [][NextTranslate]_vars

\* The long-speech watchdog: one session of one client with the clock
\* running, partial and final results arriving as time passes.
NextWatch ==
    \/ \E c \in Clients : realtimeHandleConnection(c, "u1")
    \/ \E c \in Clients, m \in CastMeetings, l \in RealtimeLanguageInputs :
           upstream = <<>> /\ handleStartTranscription(c, m, l)
    \/ \E w \in DOMAIN upstream : checkSession(w)
    \/ \E w \in DOMAIN upstream : upstreamOpen(w)
    \/ \E w \in DOMAIN upstream : upstreamSessionMessage(w, "session.created")
    \/ \E w \in DOMAIN upstream : timePasses(w)
    \/ \E w \in DOMAIN upstream : onPartialResult(w)
    \/ \E w \in DOMAIN upstream, t \in FinalTexts, l \in DetectedLanguages :
           onFinalResult(w, t, l)
    \/ \E f \in feedback, a \in ProviderAnswers : feedbackAnswers(f, a)

SpecWatch == Init /\ [][NextWatch]_vars

-----------------------------------------------------------------------------
(* The properties.                                                         *)

\* C1: once the disconnect of a connection has been handled and no handler of
\* the connection is in flight, its id is in no subscriber set, not in
\* socketToUserMap and socketToMeetingMap, and not in openaiConnections,
\* sessionReady and clientLanguages.
C1_DisconnectedIdInNoTable ==
    /\ \A s \in Sockets :
           (/\ sockState[s] = "closed"
            /\ awaitingProfile[s] = None
            /\ \A h \in subscribeJoin \cup unsubscribeLeave : h.socket # s)
           => /\ \A m \in Meetings : s \notin activeSubscriptions[m]
              /\ socketToUserMap[s] = None
              /\ socketToMeetingMap[s] = None
    /\ \A c \in Clients :
           (/\ rtState[c] = "closed"
            /\ \A w \in DOMAIN upstream : upstream[w].client = c => ~upstream[w].waiting)
           => /\ ~MapHas(openaiConnections, c)
              /\ ~MapHas(sessionReady, c)
              /\ ~MapHas(clientLanguages, c)

\* C2: no SUBTITLE_UPDATE carries the original text of the utterance as its
\* translatedText, and no SUBTITLE_UPDATE is emitted for a language group
\* whose translation failed or came back empty.
C2_NoOriginalTextAsTranslation ==
    \A s \in Sockets : \A i \in DOMAIN inbox[s] :
        inbox[s][i].type = "SUBTITLE_UPDATE"
        => /\ inbox[s][i].translatedText # trim(inbox[s][i].originalText)
           /\ inbox[s][i].targetLanguage \notin translateFailed[inbox[s][i].utterance]

\* C3: when the translation of a language group failed or came back empty,
\* what the sockets of the group receive for the utterance is a
\* TRANSLATION_ERROR, and a TRANSLATION_ERROR goes to no other socket.
C3_FailedGroupGetsTranslationError ==
    \A s \in Sockets : \A i \in DOMAIN inbox[s] :
        (inbox[s][i].targetLanguage \in translateFailed[inbox[s][i].utterance])
        <=> (inbox[s][i].type = "TRANSLATION_ERROR")

\* C4: one broadcastSubtitle calls translateText at most once for a target
\* language, however many sockets are in the group and whether or not the
\* call failed.
C4_OneTranslationPerLanguage ==
    \A u \in DOMAIN translateCalls : \A lang \in supportedLanguages :
        translateCalls[u][lang] <= 1

\* C4 witness: two sockets were served in one language by one translateText
\* call, which failed.
C4_Witness ==
    \E u \in DOMAIN translateCalls : \E lang \in supportedLanguages :
        /\ translateCalls[u][lang] = 1
        /\ lang \in translateFailed[u]
        /\ \A s \in Sockets : \E i \in DOMAIN inbox[s] :
               inbox[s][i].utterance = u /\ inbox[s][i].targetLanguage = lang

\* C5: when broadcastSubtitle is called, a socket whose user has the source
\* language of the utterance stored as the preference is put in no language
\* group and is emitted nothing, and translateText is called only if some
\* subscriber of the meeting has another preference.
C5_SameLanguageNotServed ==
    [][ nextUtterance' = nextUtterance + 1 =>
          LET stored(s, m) ==
                  IF socketToUserMap[s] = None THEN undefined
                  ELSE participantPreferences[m][socketToUserMap[s]]
              started == {b \in broadcasts' : b.utterance = nextUtterance}
              got(s) == IF Len(inbox'[s]) > Len(inbox[s])
                        THEN {inbox'[s][Len(inbox'[s])]} ELSE {}
              served == {<<b.meetingId, b.sourceLanguage>> : b \in started}
                           \cup UNION {{<<e.meetingId, e.sourceLanguage>> : e \in got(s)} :
                                          s \in Sockets}
          IN  /\ \A s \in Sockets :
                    /\ \A b \in started :
                           stored(s, b.meetingId) = b.sourceLanguage
                           => \A lang \in DOMAIN b.languageGroups :
                                  s \notin b.languageGroups[lang]
                    /\ \A e \in got(s) : stored(s, e.meetingId) # e.sourceLanguage
              /\ (\E lang \in supportedLanguages : translateCalls'[nextUtterance][lang] > 0)
                 => \E x \in served : \E s \in activeSubscriptions[x[1]] :
                        stored(s, x[1]) # x[2]
      ]_vars

\* C5 witness: a broadcast is waiting for the provider while a subscriber of
\* its meeting, whose stored preference is the source language, is in none of
\* its groups and has been emitted nothing.
C5_Witness ==
    \E b \in broadcasts : \E s \in activeSubscriptions[b.meetingId] :
        /\ socketToUserMap[s] # None
        /\ participantPreferences[b.meetingId][socketToUserMap[s]] = b.sourceLanguage
        /\ \A lang \in DOMAIN b.languageGroups : s \notin b.languageGroups[lang]
        /\ inbox[s] = <<>>
        /\ \E lang \in DOMAIN b.languageGroups : b.languageGroups[lang] # {}

\* C6: the translatedText of every SUBTITLE_UPDATE is a text that
\* validateTranscriptionQuality accepts.
C6_DeliveredTranslationPassesFilter ==
    \A s \in Sockets : \A i \in DOMAIN inbox[s] :
        inbox[s][i].type = "SUBTITLE_UPDATE"
        => validateTranscriptionQuality(inbox[s][i].translatedText)

\* C7: of the upstream WebSockets created for one client, at most one is open.
C7_OneOpenUpstreamPerClient ==
    \A c \in Clients :
        Cardinality({w \in DOMAIN upstream :
                        upstream[w].client = c /\ upstream[w].readyState = OPEN}) <= 1

\* C8: a socket is in the subscriber set of at most one meeting.
C8_OneMeetingPerSocket ==
    \A s \in Sockets :
        Cardinality({m \in Meetings : s \in activeSubscriptions[m]}) <= 1

\* C9: an audio chunk is sent only to an upstream WebSocket that is open and
\* has sent its session.created or session.updated.
C9_AudioOnlyToReadyUpstream ==
    \A e \in out :
        e.to = "upstream"
        => upstream[e.session].ready /\ upstream[e.session].readyState = OPEN

\* C10: after handleStopTranscription closed the upstream WebSocket of a
\* session, no callback of that session emits PARTIAL_TRANSCRIPTION,
\* FINAL_TRANSCRIPTION, TRANSCRIPTION_STARTED or the ready timeout ERROR to
\* the client, and none starts a broadcast.
C10_NoEventAfterStop ==
    [][ \A e \in out' :
          (e.session \in DOMAIN upstream /\ e.to \in Clients /\ upstream[e.session].stopped)
          => /\ e.type \notin {"PARTIAL_TRANSCRIPTION", "FINAL_TRANSCRIPTION",
                               "TRANSCRIPTION_STARTED"}
             /\ ~(e.type = "ERROR" /\ e.msg =
                     "Timeout: OpenAI session did not become ready within 5 seconds")
             /\ nextUtterance' = nextUtterance
      ]_vars

\* The ready wait of the session of upstream WebSocket w ended with its
\* timeout: the branch of lines 454-458 ran.
readyWaitExpired(w) == ~upstream[w].waiting /\ upstream[w].waited >= maxWaitTime

\* C11: once the ready wait of a session has expired without the ready
\* signal, its upstream WebSocket is closing or closed and is not in
\* openaiConnections, and no audio chunk is forwarded to it, whatever the
\* upstream sends afterwards.
C11_ReadyTimeoutClosesSession ==
    /\ \A w \in DOMAIN upstream :
           readyWaitExpired(w)
           => /\ upstream[w].readyState \in {CLOSING, CLOSED}
              /\ \A c \in DOMAIN openaiConnections : openaiConnections[c] # w
    /\ \A e \in out : e.to = "upstream" => ~readyWaitExpired(e.session)

\* C12: the ready wait of one START_REALTIME_TRANSCRIPTION emits one outcome
\* and then nothing more: a step emits at most one of TRANSCRIPTION_STARTED
\* and the ready timeout ERROR for a session, it ends the wait of the session,
\* and TRANSCRIPTION_STARTED is emitted only for a session whose upstream
\* WebSocket has sent its session.created or session.updated.
C12_OneOutcomePerStart ==
    [][ \A w \in DOMAIN upstream' :
          LET outcomes ==
                  {e \in out' :
                      /\ e.session = w
                      /\ \/ e.type = "TRANSCRIPTION_STARTED"
                         \/ /\ e.type = "ERROR"
                            /\ e.msg = "Timeout: OpenAI session did not become ready within 5 seconds"}
          IN  /\ Cardinality(outcomes) <= 1
              /\ outcomes # {}
                 => /\ w \in DOMAIN upstream
                    /\ upstream[w].waiting
                    /\ ~upstream'[w].waiting
              /\ (\E e \in outcomes : e.type = "TRANSCRIPTION_STARTED")
                 => upstream[w].ready
      ]_vars

\* C13: once the ready wait of a session has expired without the ready
\* signal, the client of the session is disconnected.
C13_ReadyTimeoutDisconnectsClient ==
    \A w \in DOMAIN upstream :
        readyWaitExpired(w) => rtState[upstream[w].client] = "closed"

\* C14: a connection whose handleConnection ends in a rejection (no token, a
\* token that does not verify, a user getProfile does not find) is
\* disconnected by that step, and its id is in no map of its gateway, neither
\* before the rejection nor after it.
C14_RejectedConnectionInNoMap ==
    [][ /\ \A s \in Sockets :
              (\E e \in out' :
                  /\ e.to = s
                  /\ e.type = "ERROR"
                  /\ e.msg \in {"No authentication token provided",
                                "Invalid authentication token", "User not found"})
              => /\ sockState'[s] = "closed"
                 /\ socketToUserMap[s] = None /\ socketToUserMap'[s] = None
                 /\ socketToMeetingMap[s] = None /\ socketToMeetingMap'[s] = None
                 /\ \A m \in Meetings :
                        s \notin activeSubscriptions[m] /\ s \notin activeSubscriptions'[m]
        /\ \A c \in Clients :
              (rtState[c] = "fresh" /\ rtState'[c] = "closed")
              => /\ ~MapHas(openaiConnections, c) /\ ~MapHas(openaiConnections', c)
                 /\ ~MapHas(sessionReady, c) /\ ~MapHas(sessionReady', c)
                 /\ ~MapHas(clientLanguages, c) /\ ~MapHas(clientLanguages', c)
      ]_vars

C16_StoredLanguagesSupported ==
    /\ \A c \in DOMAIN clientLanguages : clientLanguages[c] \in supportedLanguages
    /\ \A m \in Meetings, u \in Users :
           participantPreferences[m][u] # undefined
           => participantPreferences[m][u] \in supportedLanguages

\* C17: a step in which a session emits PARTIAL_TRANSCRIPTION emits to the
\* client of the session only, starts no broadcast, calls no translation and
\* puts nothing in the inbox of a subscriber.
C17_PartialOnlyToSpeaker ==
    [][ \A w \in DOMAIN upstream :
          (\E e \in out' : e.type = "PARTIAL_TRANSCRIPTION" /\ e.session = w)
          => /\ \A e \in out' : e.to = upstream[w].client
             /\ broadcasts' = broadcasts
             /\ nextUtterance' = nextUtterance
             /\ translateCalls' = translateCalls
             /\ inbox' = inbox
             /\ feedback' = feedback
      ]_vars

\* C17 witness: a session whose upstream is ready has just emitted a partial
\* result to its client, and no utterance has been broadcast.
C17_Witness ==
    \E e \in out :
        /\ e.type = "PARTIAL_TRANSCRIPTION"
        /\ e.to = upstream[e.session].client
        /\ upstream[e.session].ready
        /\ nextUtterance = 1
        /\ broadcasts = {}

C19_LongSpeechLogged ==
    [][ \A w \in DOMAIN upstream :
          (/\ \E e \in out' : e.type = "PARTIAL_TRANSCRIPTION" /\ e.session = w
           /\ upstream[w].sinceFinal >= FORCE_FINAL_INTERVAL
           /\ upstream[w].lastFinalResultAge <= TickMs
           /\ upstream[w].lastFinalResultAge < upstream[w].sinceFinal)
          => upstream'[w].longSpeechLogged
      ]_vars

C23_RejectedFinalGoesNowhere ==
    [][ /\ \A w \in DOMAIN upstream :
              EmitFrom("log", "warn", "Rejected low-quality transcription", w) \in out'
              => /\ nextUtterance' = nextUtterance
                 /\ broadcasts' = broadcasts
                 /\ translateCalls' = translateCalls
                 /\ inbox' = inbox
                 /\ feedback' = feedback
                 /\ \A e \in out' : e.type \notin {"FINAL_TRANSCRIPTION", "SUBTITLE_UPDATE",
                                                   "TRANSLATION_ERROR"}
                 /\ openaiConnections' = openaiConnections
                 /\ sessionReady' = sessionReady
                 /\ clientLanguages' = clientLanguages
                 /\ \A v \in DOMAIN upstream :
                        upstream'[v].readyState = upstream[v].readyState
        /\ \A f \in feedback' \ feedback :
              f.text # TxtUhUmAh /\ validateTranscriptionQuality(f.text)
        /\ \A b \in broadcasts' \ broadcasts :
              b.originalText # TxtUhUmAh /\ validateTranscriptionQuality(b.originalText)
      ]_vars

\* C23 witness: the quality filter has just rejected a final result of a
\* ready session, and no utterance has been broadcast or translated.
C23_Witness ==
    \E e \in out :
        /\ e = EmitFrom("log", "warn", "Rejected low-quality transcription", e.session)
        /\ upstream[e.session].ready
        /\ upstream[e.session].readyState = OPEN
        /\ nextUtterance = 1
        /\ broadcasts = {}
        /\ feedback = {}

\* C24: a broadcast whose source language, lower-cased and trimmed, is
\* neither 'en' nor 'ko', or whose meeting has no subscriber, requests no
\* translation, emits no event to anyone and changes no map of the registry.
C24_IgnoredBroadcastChangesNothing ==
    [][\A m \in CastMeetings, t \in UtteranceTexts, src \in SourceLanguages :
          /\ broadcastSubtitle(m, t, src)
          /\ \/ trim(toLowerCase(IF Falsy(src) THEN EN ELSE src)) \notin supportedLanguages
             \/ activeSubscriptions[m] = {}
          => /\ translateCalls' = translateCalls
             /\ translateFailed' = translateFailed
             /\ broadcasts' = broadcasts
             /\ inbox' = inbox
             /\ out' = {}
             /\ UNCHANGED <<sockState, clientUser, participantPreferences,
                            activeSubscriptions, socketToUserMap, socketToMeetingMap>>
      ]_vars

\* An utterance was broadcast to a meeting with a subscriber of each
\* language, and nobody was sent anything.
C24_Witness ==
    /\ nextUtterance = 2
    /\ broadcasts = {}
    /\ out = {}
    /\ \A s \in Sockets : inbox[s] = <<>>
    /\ \A lang \in supportedLanguages : translateCalls[1][lang] = 0
    /\ \A lang \in supportedLanguages :
           \E s \in activeSubscriptions["m1"] :
               /\ socketToUserMap[s] # None
               /\ userLang("m1", s) = lang

\* C26: when a streaming session (ready, its WebSocket open and registered
\* for its client) gets an error from upstream or its WebSocket closes, the
\* session is closed by that step: the WebSocket is no longer the client's
\* entry of openaiConnections and audio is no longer forwarded to it.
C26_UpstreamFailureClosesSession ==
    [][\A w \in DOMAIN upstream :
          LET c == upstream[w].client
          IN  /\ upstream[w].ready
              /\ upstream[w].readyState = OPEN
              /\ MapHas(openaiConnections, c)
              /\ openaiConnections[c] = w
              /\ \/ EmitFrom(c, "ERROR", "Unknown error", w) \in out'
                 \/ upstream'[w].readyState = CLOSED
              => /\ ~(MapHas(openaiConnections', c) /\ openaiConnections'[c] = w)
                 /\ ~isReady(c, w)'
      ]_vars

\* C27 as stated: the close of an upstream WebSocket reports an error to the
\* client of its session for every close code but 1005, and none for 1005.
C27_ErrorUnlessNoStatus ==
    [][\A w \in DOMAIN upstream, code \in CloseCodes :
          upstreamClose(w, code)
          => (code # 1005
              <=> EmitFrom(upstream[w].client, "ERROR",
                           "WebSocket closed unexpectedly", w) \in out')
      ]_vars

\* C27 amended: the close of an upstream WebSocket reports an error to the
\* client of its session for every close code but 1000 and 1005, and none
\* for these two; the error goes to nobody else.
C27_ErrorUnlessNormalOrNoStatus ==
    [][\A w \in DOMAIN upstream, code \in CloseCodes :
          upstreamClose(w, code)
          => /\ code \notin {1000, 1005}
                <=> EmitFrom(upstream[w].client, "ERROR",
                             "WebSocket closed unexpectedly", w) \in out'
             /\ \A e \in out' : e.to = upstream[w].client /\ e.type = "ERROR"
      ]_vars

\* An upstream WebSocket has just closed and the close was reported.
C27_Witness ==
    \E w \in DOMAIN upstream :
        /\ upstream[w].readyState = CLOSED
        /\ out = {EmitFrom(upstream[w].client, "ERROR", "WebSocket closed unexpectedly", w)}

\* C28: SUBSCRIBE_SUBTITLES, UNSUBSCRIBE_SUBTITLES and
\* START_REALTIME_TRANSCRIPTION without a meeting id emit an ERROR to their
\* client and leave activeSubscriptions, participantPreferences,
\* socketToUserMap, socketToMeetingMap, openaiConnections, sessionReady and
\* clientLanguages as they were.
C28_NoMeetingIdChangesNoMap ==
    [][LET rejected(client) ==
               /\ \E e \in out' : e.to = client /\ e.type = "ERROR"
               /\ UNCHANGED <<activeSubscriptions, participantPreferences,
                              socketToUserMap, socketToMeetingMap,
                              openaiConnections, sessionReady, clientLanguages>>
       IN  /\ \A s \in Sockets, l \in LanguageInputs :
                  handleSubscribeSubtitles(s, None, l, FALSE) => rejected(s)
           /\ \A s \in Sockets :
                  handleUnsubscribeSubtitles(s, None, FALSE) => rejected(s)
           /\ \A c \in Clients, l \in RealtimeLanguageInputs :
                  handleStartTranscription(c, None, l) => rejected(c)
      ]_vars

\* A subscribed socket and a client with a session have just been refused a
\* request without a meeting id.
C28_Witness ==
    /\ \E s \in Sockets :
           /\ socketToMeetingMap[s] = "m1"
           /\ s \in activeSubscriptions["m1"]
           /\ out = {Emit(s, "ERROR", "Meeting ID is required")}
    /\ \E c \in Clients : MapHas(openaiConnections, c) /\ MapHas(clientLanguages, c)

\* C29: no step adds a connection to a shared map before its user is
\* resolved: a socket without client.user enters neither activeSubscriptions
\* nor socketToMeetingMap, and a realtime client that is not connected with
\* a verified token enters neither openaiConnections, sessionReady nor
\* clientLanguages.
C29_NoMapEntryBeforeIdentity ==
    [][ /\ \A s \in Sockets :
              clientUser[s] = None
              => /\ \A m \in Meetings :
                        s \in activeSubscriptions'[m] => s \in activeSubscriptions[m]
                 /\ socketToMeetingMap'[s] \in {None, socketToMeetingMap[s]}
        /\ \A c \in Clients :
              rtState[c] # "open"
              => /\ MapHas(openaiConnections', c) => MapHas(openaiConnections, c)
                 /\ MapHas(sessionReady', c) => MapHas(sessionReady, c)
                 /\ MapHas(clientLanguages', c) => MapHas(clientLanguages, c)
      ]_vars

\* C30: once a socket is disconnected and none of its handlers is suspended
\* any more (handleConnection at getProfile, a subscribe at client.join, an
\* unsubscribe at client.leave), its id is in none of activeSubscriptions,
\* socketToUserMap and socketToMeetingMap.
C30_NoEntryAfterDisconnect ==
    \A s \in Sockets :
        /\ sockState[s] = "closed"
        /\ awaitingProfile[s] = None
        /\ \A j \in subscribeJoin : j.socket # s
        /\ \A l \in unsubscribeLeave : l.socket # s
        => /\ \A m \in Meetings : s \notin activeSubscriptions[m]
           /\ socketToUserMap[s] = None
           /\ socketToMeetingMap[s] = None

\* C31: when an utterance of source language 'ko' is broadcast, every
\* subscriber of the meeting without a stored preference of 'en' or 'ko' is
\* in the 'en' group: the broadcast either waits for the English translation
\* with the socket in that group, or has sent the socket an event of target
\* language 'en'.
C31_NoPreferenceMeansEnglish ==
    [][\A m \in CastMeetings, t \in UtteranceTexts, src \in SourceLanguages :
          /\ broadcastSubtitle(m, t, src)
          /\ trim(toLowerCase(IF Falsy(src) THEN EN ELSE src)) = KO
          => \A s \in activeSubscriptions[m] :
                 \/ /\ socketToUserMap[s] # None
                    /\ participantPreferences[m][socketToUserMap[s]] \in supportedLanguages
                 \/ \E b \in broadcasts' \ broadcasts :
                        /\ EN \in DOMAIN b.languageGroups
                        /\ s \in b.languageGroups[EN]
                 \/ /\ Len(inbox'[s]) = Len(inbox[s]) + 1
                    /\ inbox'[s][Len(inbox'[s])].targetLanguage = EN
      ]_vars

\* C32: for one utterance every socket of the language groups of its
\* broadcast is sent exactly one event, a SUBTITLE_UPDATE or a
\* TRANSLATION_ERROR, when the broadcast ends, and a socket outside them is
\* sent none; no socket ever holds two events of one utterance.
C32_OneEventPerUtterance ==
    [][LET served(groups) == UNION {groups[lang] : lang \in DOMAIN groups}
           one(s, u) ==
               /\ Len(inbox'[s]) = Len(inbox[s]) + 1
               /\ SubSeq(inbox'[s], 1, Len(inbox[s])) = inbox[s]
               /\ inbox'[s][Len(inbox'[s])].utterance = u
               /\ inbox'[s][Len(inbox'[s])].type \in {"SUBTITLE_UPDATE", "TRANSLATION_ERROR"}
           ends(groups, u) ==
               \A s \in Sockets :
                   IF s \in served(groups) THEN one(s, u) ELSE inbox'[s] = inbox[s]
       IN  /\ \A s \in Sockets : \A i, j \in DOMAIN inbox'[s] :
                  inbox'[s][i].utterance = inbox'[s][j].utterance => i = j
           /\ \A b \in broadcasts :
                  (\A nb \in broadcasts' : nb.utterance # b.utterance)
                  => ends(b.languageGroups, b.utterance)
           /\ \A m \in CastMeetings, t \in UtteranceTexts, src \in SourceLanguages :
                  broadcastSubtitle(m, t, src) /\ broadcasts' = broadcasts
                  => ends(languageGroups(m, trim(toLowerCase(IF Falsy(src) THEN EN ELSE src))),
                          nextUtterance)
      ]_vars

\* The utterance, of source language 'en', was translated by the provider
\* once: the subscriber of 'ko' holds one SUBTITLE_UPDATE in Korean, the
\* subscriber of 'en' nothing.
C32_Witness ==
    /\ nextUtterance = 2
    /\ broadcasts = {}
    /\ translateCalls[1] = [lang \in supportedLanguages |-> IF lang = KO THEN 1 ELSE 0]
    /\ \E x, y \in activeSubscriptions["m1"] :
           /\ socketToUserMap[x] # None /\ socketToUserMap[y] # None
           /\ participantPreferences["m1"][socketToUserMap[x]] = KO
           /\ participantPreferences["m1"][socketToUserMap[y]] = EN
           /\ Len(inbox[x]) = 1
           /\ inbox[x][1].type = "SUBTITLE_UPDATE"
           /\ inbox[x][1].sourceLanguage = EN
           /\ inbox[x][1].targetLanguage = KO
           /\ inbox[x][1].translatedText = trim(TxtKorean)
           /\ inbox[y] = <<>>

\* C33: a call of translateText whose source and target language are the
\* same after normalisation returns the text it was given as translatedText
\* and sends no request to the provider.
C33_SameLanguageReturnsOriginal ==
    \A e \in out :
        /\ e.type = "translateText"
        /\ normalizeLanguage(IF Falsy(e.msg.sourceLanguage) THEN EN ELSE e.msg.sourceLanguage)
             = normalizeLanguage(e.msg.targetLanguage)
        => /\ e.msg.translatedText = e.msg.text
           /\ e.msg.providerCalls = 0

\* C34: a socket is sent the SUBTITLE_UPDATE of the language group
\* broadcastSubtitle puts it in, so: whenever a broadcast starts, every socket
\* of a language group whose last SUBSCRIBE_SUCCESS was for this meeting is in
\* the group of the language that SUBSCRIBE_SUCCESS acknowledged, also when
\* another socket of the same user asked for another language.
C34_GroupIsAcknowledgedLanguage ==
    [][\A m \in CastMeetings, t \in UtteranceTexts, src \in SourceLanguages :
          broadcastSubtitle(m, t, src)
          => LET groups ==
                     languageGroups(m, trim(toLowerCase(IF Falsy(src) THEN EN ELSE src)))
             IN  \A lang \in DOMAIN groups : \A s \in groups[lang] :
                     socketToMeetingMap[s] = m /\ subscribedLanguage[s] # undefined
                     => lang = subscribedLanguage[s]
      ]_vars

\* C35: in every state socketToMeetingMap maps a socket to a meeting exactly
\* when the socket is in the subscriber set of that meeting.
C35_SubscriptionMapsAgree ==
    \A s \in Sockets : \A m \in Meetings :
        socketToMeetingMap[s] = m <=> s \in activeSubscriptions[m]

C37_NothingAfterUnsubscribe ==
    [][\A s \in Sockets :
          /\ sockState[s] = "open"
          /\ socketToMeetingMap[s] # None
          /\ s \notin activeSubscriptions[socketToMeetingMap[s]]
          => \/ inbox'[s] = inbox[s]
             \/ inbox'[s][Len(inbox'[s])].meetingId # socketToMeetingMap[s]
      ]_vars

\* C38: an AUDIO_CHUNK of a client is sent to at most one upstream
\* WebSocket, whatever starts and stops came before.
C38_ChunkToOneUpstream ==
    \A w, v \in DOMAIN upstream :
        /\ EmitFrom("upstream", "input_audio_buffer.append", "", w) \in out
        /\ EmitFrom("upstream", "input_audio_buffer.append", "", v) \in out
        => w = v

\* C39: the SUBTITLE_UPDATE events sent to a socket are in the order of
\* their utterances: none of a later utterance comes before one of an
\* earlier utterance.
C39_SubtitlesInUtteranceOrder ==
    \A s \in Sockets : \A i, j \in DOMAIN inbox[s] :
        /\ i < j
        /\ inbox[s][i].type = "SUBTITLE_UPDATE"
        /\ inbox[s][j].type = "SUBTITLE_UPDATE"
        => inbox[s][i].utterance < inbox[s][j].utterance

\* C40: SUBSCRIBE_SUBTITLES with a language that is neither 'en' nor 'ko'
\* once lower-cased and trimmed emits an ERROR to the socket and no
\* SUBSCRIBE_SUCCESS, and leaves activeSubscriptions, participantPreferences,
\* socketToUserMap and socketToMeetingMap as they were.
C40_InvalidLanguageRejected ==
    [][\A s \in Sockets, m \in CastMeetings, l \in LanguageInputs :
          /\ handleSubscribeSubtitles(s, m, l, FALSE)
          /\ Falsy(l) \/ trim(toLowerCase(l)) \notin supportedLanguages
          => /\ \E e \in out' : e.to = s /\ e.type = "ERROR"
             /\ \A e \in out' : e.type # "SUBSCRIBE_SUCCESS"
             /\ UNCHANGED <<activeSubscriptions, participantPreferences,
                            socketToUserMap, socketToMeetingMap>>
      ]_vars

\* A socket of a resolved user has just been refused a language, while
\* another socket is subscribed.
C40_Witness ==
    \E s, x \in Sockets :
        /\ out = {Emit(s, "ERROR", "Invalid language code")}
        /\ sockState[s] = "open"
        /\ clientUser[s] # None
        /\ socketToMeetingMap[s] = None
        /\ x # s
        /\ x \in activeSubscriptions["m1"]

====
